---- MODULE Spec2Model ----
(***************************************************************************)
(* Model of src/plugins/yearMonthSelection.ts: a flatpickr plugin that     *)
(* replaces the calendar's year input by a <select> of years and keeps it  *)
(* synchronised with the instance's currentYear.                           *)
(*                                                                         *)
(* Strings are sequences of one-character strings so that toString and     *)
(* parseInt are real conversions.  A <select> is a record                  *)
(*   [options |-> sequence of [value, text], selectedIndex |-> 0..n]       *)
(* where selectedIndex = 0 stands for the DOM's -1 (no selection); the      *)
(* closure variable yearSelector holds UndefinedSelector until onReady.    *)
(***************************************************************************)
EXTENDS Integers, Sequences, FiniteSets

VARIABLES pluginConfig, config, now, fp, last

vars == <<pluginConfig, config, now, fp, last>>

----------------------------------------------------------------------------
(* Bounds of the model *)

\* the years a caller configures lie within YearMargin of 0, of the default
\* minimum or of the default maximum
YearMargin == 1
\* longest selectedDates the host holds
MaxDates == 2
\* the user picks among the first and the last PickEnds options
PickEnds == 2
\* configurations asking for more options than this are left out
MaxOptions == 204

----------------------------------------------------------------------------
(* JavaScript values *)

\* undefined and NaN are encoded as integers far from every year of the
\* model, so that an optional number is an integer throughout
Undefined == 0 - 999998
NaN == 0 - 999999

Digits == <<"0", "1", "2", "3", "4", "5", "6", "7", "8", "9">>

IsDigit(c) == \E d \in 1..10 : Digits[d] = c

DigitVal(c) == (CHOOSE d \in 1..10 : Digits[d] = c) - 1

RECURSIVE NatToString(_)
NatToString(n) ==
  IF n < 10 THEN <<Digits[n + 1]>>
  ELSE NatToString(n \div 10) \o <<Digits[(n % 10) + 1]>>

\* Number.prototype.toString for an integer or NaN
ToString(n) ==
  IF n = NaN THEN <<"N", "a", "N">>
  ELSE IF n < 0 THEN <<"-">> \o NatToString(0 - n)
  ELSE NatToString(n)

RECURSIVE ParseDigits(_, _)
\* value of the longest prefix of digits of s, acc being the value so far
ParseDigits(s, acc) ==
  IF Len(s) > 0 /\ IsDigit(Head(s))
  THEN ParseDigits(Tail(s), acc * 10 + DigitVal(Head(s)))
  ELSE acc

\* parseInt(s): optional sign, then the leading digits; NaN when there are none
ParseInt(s) ==
  LET signed == Len(s) > 0 /\ Head(s) \in {"-", "+"}
      body == IF signed THEN Tail(s) ELSE s
  IN IF Len(body) = 0 \/ ~IsDigit(Head(body)) THEN NaN
     ELSE IF signed /\ Head(s) = "-" THEN 0 - ParseDigits(body, 0)
     ELSE ParseDigits(body, 0)

\* JavaScript truthiness of an optional number
Truthy(x) == x # Undefined /\ x # NaN /\ x # 0

----------------------------------------------------------------------------
(* Configuration *)

defaultConfig == [minYear |-> 1900, maxYear |-> 2099]

\* { ...a, ...b }: the keys of both, b's value where b has the key
SpreadReversed(a, b) ==
  [k \in (DOMAIN a) \cup (DOMAIN b) |-> IF k \in DOMAIN a THEN a[k] ELSE b[k]]

Spread(a, b) ==
  [k \in (DOMAIN a) \cup (DOMAIN b) |-> IF k \in DOMAIN b THEN b[k] ELSE a[k]]

----------------------------------------------------------------------------
(* The <select> element *)

Option(year) == [value |-> ToString(year), text |-> ToString(year)]

\* do { ... } while (minYear <= maxYear): the body runs at least once
YearOptionsDoWhile(minYear, maxYear) ==
  [k \in 1..(IF minYear <= maxYear THEN maxYear - minYear + 1 ELSE 1)
     |-> Option(minYear + k - 1)]

\* the while loop of yearSelectElement: one option per value minYear takes
\* while minYear <= maxYear, in the order the loop appends them
YearOptions(minYear, maxYear) ==
  IF minYear <= maxYear
  THEN [k \in 1..(maxYear - minYear + 1) |-> Option(minYear + k - 1)]
  ELSE <<>>

\* a single-choice <select> shows its first option until told otherwise
NewSelect(options) ==
  [options |-> options, selectedIndex |-> IF Len(options) > 0 THEN 1 ELSE 0]

yearSelectElementDoWhile(minYear, maxYear) ==
  NewSelect(IF Truthy(minYear) /\ Truthy(maxYear)
            THEN YearOptionsDoWhile(minYear, maxYear) ELSE <<>>)

yearSelectElement(minYear, maxYear) ==
  NewSelect(IF Truthy(minYear) /\ Truthy(maxYear)
            THEN YearOptions(minYear, maxYear) ELSE <<>>)

\* `let yearSelector` before its first assignment
UndefinedSelector == [options |-> <<>>, selectedIndex |-> 0 - 1]

\* select.value (getter): the value of the selected option, else ""
Value(sel) ==
  IF sel.selectedIndex = 0 THEN <<>> ELSE sel.options[sel.selectedIndex].value

Matches(sel, v) == {k \in 1..Len(sel.options) : sel.options[k].value = v}

SetValueKeep(sel, v) ==
  LET m == Matches(sel, v)
  IN IF m = {} THEN sel
     ELSE [sel EXCEPT !.selectedIndex = CHOOSE k \in m : \A j \in m : k <= j]

\* select.value = v (setter): selects the first option whose value is v,
\* and no option when there is none
SetValue(sel, v) ==
  LET m == Matches(sel, v)
  IN IF m = {} THEN [sel EXCEPT !.selectedIndex = 0]
     ELSE [sel EXCEPT !.selectedIndex = CHOOSE k \in m : \A j \in m : k <= j]

----------------------------------------------------------------------------
(* Input domains *)

\* the caller's object literal does not have the key
NoKey == 0 - 999997

\* the years the host moves to
Years == {0 - 1, 0, defaultConfig.maxYear, defaultConfig.maxYear + 1}

\* the dates the user selects (getFullYear, getMonth)
Dates == {[year |-> defaultConfig.maxYear - 1, month |-> 11],
          [year |-> defaultConfig.maxYear + 1, month |-> 0]}

\* the wall clock is on one side of a new year or the other
NowDates == {[year |-> defaultConfig.maxYear, month |-> 11],
             [year |-> defaultConfig.maxYear + 1, month |-> 0]}

RECURSIVE SeqsUpTo(_, _)
SeqsUpTo(S, n) ==
  IF n = 0 THEN {<<>>}
  ELSE SeqsUpTo(S, n - 1) \cup
       {Append(q, d) : q \in {r \in SeqsUpTo(S, n - 1) : Len(r) = n - 1}, d \in S}

DateSeqs == SeqsUpTo(Dates, MaxDates)

\* the object literal the caller passes to yearMonthSelection
ConfigObject(mn, mx) ==
  [k \in {j \in {"minYear", "maxYear"} :
            (j = "minYear" /\ mn # NoKey) \/ (j = "maxYear" /\ mx # NoKey)}
     |-> IF k = "minYear" THEN mn ELSE mx]

\* number of options a configuration asks for
Span(cfg) ==
  IF cfg.minYear = Undefined \/ cfg.maxYear = Undefined THEN 0
  ELSE IF cfg.minYear > cfg.maxYear THEN 0
  ELSE cfg.maxYear - cfg.minYear + 1

\* the configurations the instances are run with: the last two years of the
\* default range, a range around year 0, a missing bound, an inverted range
ConfigInputs ==
  {ConfigObject(defaultConfig.maxYear - 1, NoKey), ConfigObject(0 - 1, 1),
   ConfigObject(Undefined, NoKey), ConfigObject(1, 0 - 1)}

\* what the caller may pass for one key when only the <select> is built:
\* nothing, an explicit undefined, a year within YearMargin of 0 or of a default
KeyInputs ==
  {NoKey, Undefined}
    \cup ((0 - YearMargin)..YearMargin)
    \cup ((defaultConfig.minYear - YearMargin)..(defaultConfig.minYear + YearMargin))
    \cup ((defaultConfig.maxYear - YearMargin)..(defaultConfig.maxYear + YearMargin))

WideConfigInputs ==
  {c \in {ConfigObject(mn, mx) : mn \in KeyInputs, mx \in KeyInputs} :
     Span(Spread(defaultConfig, c)) <= MaxOptions}

\* the hosts the plugin is attached to: a calendar whose header holds the
\* year input, one without the header, one whose header lacks the input's
\* wrapper, and a time picker (noCalendar), which builds no header
HostKinds ==
  {[noCalendar |-> FALSE, layout |-> "default"],
   [noCalendar |-> FALSE, layout |-> "noHeader"],
   [noCalendar |-> FALSE, layout |-> "noWrapper"],
   [noCalendar |-> TRUE, layout |-> "noHeader"]}

----------------------------------------------------------------------------
(* One flatpickr instance with the plugin attached.                        *)
(* Host fields: noCalendar, layout, readyFired, isOpen, currentYear,       *)
(*   currentMonth, selectedDates.                                          *)
(* Plugin closure: hooks (the hooks the plugin returned), yearSelector,    *)
(*   bound (the listeners registered with fp._bind), created (the number   *)
(*   of <select> elements the plugin has created for the instance).        *)
(* Log of the latest event on the instance: touched (the members of fp the *)
(*   plugin used), cmds (the commands it gave the host), nested (hooks run *)
(*   inside another handler), fault (the handler threw), observed (a       *)
(*   handler of the calendar container saw the event).                     *)

HookNames == {"onOpen", "onYearChange", "onValueUpdate", "onReady"}

PluginHooksAlways(noCalendar) == HookNames

\* return function(fp) { if (fp.config.noCalendar) return {}; ... }
PluginHooks(noCalendar) == IF noCalendar THEN {} ELSE HookNames

\* let yearSelector = document.createElement('select') at its declaration
NewInstanceEager(noCalendar, layout, date) ==
  [noCalendar |-> noCalendar, layout |-> layout, readyFired |-> FALSE,
   isOpen |-> FALSE, currentYear |-> date.year, currentMonth |-> date.month,
   selectedDates |-> <<>>,
   hooks |-> PluginHooks(noCalendar),
   yearSelector |-> IF noCalendar THEN UndefinedSelector ELSE NewSelect(<<>>),
   bound |-> {}, created |-> IF noCalendar THEN 0 ELSE 1,
   touched |-> {"config.noCalendar"},
   cmds |-> <<>>, nested |-> <<>>, fault |-> FALSE, observed |-> FALSE]

NewInstance(noCalendar, layout, date) ==
  [noCalendar |-> noCalendar, layout |-> layout, readyFired |-> FALSE,
   isOpen |-> FALSE, currentYear |-> date.year, currentMonth |-> date.month,
   selectedDates |-> <<>>,
   hooks |-> PluginHooks(noCalendar), yearSelector |-> UndefinedSelector,
   bound |-> {}, created |-> 0, touched |-> {"config.noCalendar"},
   cmds |-> <<>>, nested |-> <<>>, fault |-> FALSE, observed |-> FALSE]

\* a new event starts with an empty log
Begin(s) ==
  [s EXCEPT !.touched = {}, !.cmds = <<>>, !.nested = <<>>, !.fault = FALSE,
            !.observed = FALSE]

Use(s, members) == [s EXCEPT !.touched = @ \cup members]

\* fp.changeMonth(month, false): the host adopts the month
ChangeMonth(s, month, isOffset) ==
  [Use(s, {"changeMonth"}) EXCEPT
     !.cmds = Append(@, [cmd |-> "changeMonth", arg |-> month, flag |-> isOffset]),
     !.currentMonth = month]

\* writing the value dispatches "change", whose listener commands the year
\* it parses from the <select>
SyncFromHostCommits(s) ==
  IF s.yearSelector # UndefinedSelector
  THEN LET sel == SetValue(s.yearSelector, ToString(s.currentYear))
       IN [Use(s, {"currentYear", "changeYear"}) EXCEPT
             !.yearSelector = sel,
             !.cmds = Append(@, [cmd |-> "changeYear", arg |-> ParseInt(Value(sel)),
                                 flag |-> FALSE])]
  ELSE s

\* onYearChange and onValueUpdate have the same body
SyncFromHost(s) ==
  IF s.yearSelector # UndefinedSelector
  THEN [Use(s, {"currentYear"}) EXCEPT
          !.yearSelector = SetValue(@, ToString(s.currentYear))]
  ELSE s

\* the hook also sends the calendar back to January
OnYearChangeMonth(s) == SyncFromHost(ChangeMonth(s, 0, FALSE))

OnYearChange(s) == SyncFromHost(s)

\* fp.changeYear(year): the host adopts the year and fires "year changed"
\* when the year is a new one.  What it does with NaN is the host's choice
\* (adoptsNaN).
ChangeYear(s, year, adoptsNaN) ==
  LET s0 == [Use(s, {"changeYear"}) EXCEPT
               !.cmds = Append(@, [cmd |-> "changeYear", arg |-> year, flag |-> FALSE])]
      s1 == [s0 EXCEPT !.currentYear = year]
  IN IF (year = NaN /\ ~adoptsNaN) \/ year = s.currentYear THEN s0
     ELSE IF "onYearChange" \in s1.hooks
          THEN OnYearChange([s1 EXCEPT !.nested = Append(@, "onYearChange")])
          ELSE s1

OnValueUpdateNothing(s) == s

\* the hook moves the calendar to the year of the first selected date
OnValueUpdateJumps(s) ==
  SyncFromHost(IF Len(s.selectedDates) > 0
               THEN ChangeYear(s, s.selectedDates[1].year, FALSE) ELSE s)

OnValueUpdate(s) == SyncFromHost(s)

ReferenceDateLast(s, today) ==
  IF Len(s.selectedDates) > 0 THEN s.selectedDates[Len(s.selectedDates)] ELSE today

\* selectedDates[0], and new Date() when nothing is selected
ReferenceDate(s, today) ==
  IF Len(s.selectedDates) > 0 THEN s.selectedDates[1] ELSE today

\* fp.changeMonth(currentMonth): without the second argument the month is
\* an offset from the month shown
OnOpenOffset(s, today) ==
  LET selectedDate == ReferenceDate(s, today)
      currentYear == selectedDate.year
      currentMonth == selectedDate.month
      s1 == ChangeYear(Use(s, {"selectedDates"}), currentYear, FALSE)
      s2 == ChangeMonth(s1, (s1.currentMonth + currentMonth) % 12, TRUE)
  IN IF s2.yearSelector # UndefinedSelector
     THEN [s2 EXCEPT !.yearSelector = SetValue(@, ToString(currentYear))]
     ELSE s2

\* the commands to the host moved inside if (yearSelector)
OnOpenGuarded(s, today) ==
  LET selectedDate == ReferenceDate(s, today)
      currentYear == selectedDate.year
      currentMonth == selectedDate.month
      s0 == Use(s, {"selectedDates"})
      s2 == ChangeMonth(ChangeYear(s0, currentYear, FALSE), currentMonth, FALSE)
  IN IF s.yearSelector # UndefinedSelector
     THEN [s2 EXCEPT !.yearSelector = SetValue(@, ToString(currentYear))]
     ELSE s0

OnOpen(s, today) ==
  LET selectedDate == ReferenceDate(s, today)
      currentYear == selectedDate.year
      currentMonth == selectedDate.month
      s1 == ChangeYear(Use(s, {"selectedDates"}), currentYear, FALSE)
      s2 == ChangeMonth(s1, currentMonth, FALSE)
  IN IF s2.yearSelector # UndefinedSelector
     THEN [s2 EXCEPT !.yearSelector = SetValue(@, ToString(currentYear))]
     ELSE s2

StopPropagationEventsNoFocus == {"click", "mousedown"}

\* [EVENTS.CLICK, EVENTS.MOUSEDOWN, EVENTS.FOCUS]
StopPropagationEvents == {"click", "mousedown", "focus"}

Listeners ==
  {[event |-> e, handler |-> "stopPropagation"] : e \in StopPropagationEvents}
    \cup {[event |-> "change", handler |-> "changeYear"]}

\* replaceChild throws when the header or its numInputWrapper is missing;
\* the new container carries the class numInputWrapper itself
ReplaceYearInput(s) ==
  IF s.layout \in {"noHeader", "noWrapper"} THEN [s EXCEPT !.fault = TRUE]
  ELSE [s EXCEPT !.layout = "select"]

OnReady(s, cfg) ==
  LET s1 == [Use(s, {"_bind", "calendarContainer"}) EXCEPT
               !.yearSelector = yearSelectElement(cfg.minYear, cfg.maxYear),
               !.created = @ + 1,
               !.bound = @ \cup Listeners]
  IN ReplaceYearInput(s1)

OnChangeIndex(s, adoptsNaN) ==
  ChangeYear(s, s.yearSelector.selectedIndex, adoptsNaN)

\* the listener bound for "change"
OnChange(s, adoptsNaN) ==
  ChangeYear(s, ParseInt(Value(s.yearSelector)), adoptsNaN)

\* a click, mousedown or focus on the <select>: its own listeners run first,
\* and unless one of them stopped it the event bubbles to the calendar
\* container, whose handler sees it and closes the calendar
DispatchPointer(s, type) ==
  IF [event |-> type, handler |-> "stopPropagation"] \in s.bound THEN s
  ELSE IF s.layout = "select" THEN [s EXCEPT !.observed = TRUE, !.isOpen = FALSE]
  ELSE s

----------------------------------------------------------------------------
(* The system: one plugin (pluginConfig, config), the wall clock (now),    *)
(* the instances the plugin is attached to (fp) and the latest event.      *)

Event(ev, i, arg) == [ev |-> ev, inst |-> i, arg |-> arg]

\* yearSelector declared beside config, in yearMonthSelection: the instances
\* of one plugin share it
PluginScope(f, i, s) ==
  [j \in DOMAIN f |->
     IF j = i THEN s
     ELSE IF f[j].noCalendar THEN f[j]
     ELSE [f[j] EXCEPT !.yearSelector = s.yearSelector]]

\* yearSelector and the handlers are declared inside function(fp): what a
\* handler of instance i does stays with instance i
InstanceScope(f, i, s) == [f EXCEPT ![i] = s]

\* the years whose options the user picks among
PickYears(sel) ==
  {y \in Years : \E k \in 1..Len(sel.options) :
     /\ sel.options[k].text = ToString(y)
     /\ (k <= PickEnds \/ k > Len(sel.options) - PickEnds)}

IndexOfText(sel, t) == CHOOSE k \in 1..Len(sel.options) : sel.options[k].text = t

\* the events a user produces on the <select>
PointerEvents == {"click", "mousedown", "focus"}

\* yearMonthSelection(pluginConfig), attached to one instance that shows
\* today's month
Init ==
  /\ pluginConfig \in ConfigInputs
  /\ config = Spread(defaultConfig, pluginConfig)
  /\ now \in NowDates
  /\ \E host \in HostKinds :
       fp = [i \in {1} |-> NewInstance(host.noCalendar, host.layout, now)]
  /\ last = Event("init", 0, 0)

\* the host fires "ready", once
HostReady(i) ==
  /\ ~fp[i].readyFired
  /\ LET s == [Begin(fp[i]) EXCEPT !.readyFired = TRUE]
     IN fp' = InstanceScope(fp, i, IF "onReady" \in s.hooks THEN OnReady(s, config) ELSE s)
  /\ last' = Event("ready", i, 0)
  /\ UNCHANGED <<pluginConfig, config, now>>

\* the calendar becomes visible and the host fires "opened"; the event
\* records whether the one before it was "opened" on the same instance
HostOpen(i) ==
  /\ LET s == [Begin(fp[i]) EXCEPT !.isOpen = TRUE]
     IN fp' = InstanceScope(fp, i, IF "onOpen" \in s.hooks THEN OnOpen(s, now) ELSE s)
  /\ last' = Event("open", i, IF last.ev = "open" /\ last.inst = i THEN 1 ELSE 0)
  /\ UNCHANGED <<pluginConfig, config, now>>

\* the calendar is closed; the plugin has no hook for it
HostClose(i) ==
  /\ fp[i].isOpen
  /\ fp' = [fp EXCEPT ![i] = [Begin(fp[i]) EXCEPT !.isOpen = FALSE]]
  /\ last' = Event("close", i, 0)
  /\ UNCHANGED <<pluginConfig, config, now>>

\* the host moves to another year and fires "year changed"
HostYearChange(i, y) ==
  /\ y # fp[i].currentYear
  /\ LET s == [Begin(fp[i]) EXCEPT !.currentYear = y]
     IN fp' = InstanceScope(fp, i,
                 IF "onYearChange" \in s.hooks THEN OnYearChange(s) ELSE s)
  /\ last' = Event("yearChange", i, y)
  /\ UNCHANGED <<pluginConfig, config, now>>

\* the host commits a selection, shows the month of its latest date or
\* stays where it is, and fires "value updated"
HostValueUpdate(i, dates, jump) ==
  /\ dates # fp[i].selectedDates
  /\ LET s0 == [Begin(fp[i]) EXCEPT !.selectedDates = dates]
         s == IF jump /\ Len(dates) > 0
              THEN [s0 EXCEPT !.currentYear = dates[Len(dates)].year,
                              !.currentMonth = dates[Len(dates)].month]
              ELSE s0
     IN fp' = InstanceScope(fp, i,
                 IF "onValueUpdate" \in s.hooks THEN OnValueUpdate(s) ELSE s)
  /\ last' = Event("valueUpdate", i, 0)
  /\ UNCHANGED <<pluginConfig, config, now>>

\* a click, mousedown or focus on the <select>
ControlPointer(i, type) ==
  /\ fp[i].yearSelector # UndefinedSelector
  /\ fp' = [fp EXCEPT ![i] = DispatchPointer(Begin(fp[i]), type)]
  /\ last' = Event(type, i, 0)
  /\ UNCHANGED <<pluginConfig, config, now>>

\* the user picks the option labelled y and the <select> fires "change"
ControlSelect(i, y) ==
  /\ fp[i].yearSelector # UndefinedSelector
  /\ y \in PickYears(fp[i].yearSelector)
  /\ LET s == [Begin(fp[i]) EXCEPT
                 !.yearSelector.selectedIndex = IndexOfText(fp[i].yearSelector, ToString(y))]
     IN fp' = InstanceScope(fp, i,
                 IF [event |-> "change", handler |-> "changeYear"] \in s.bound
                 THEN OnChange(s, FALSE) ELSE s)
  /\ last' = Event("select", i, y)
  /\ UNCHANGED <<pluginConfig, config, now>>

\* a "change" event on the <select> as it stands, dispatched by a script
ControlChange(i, adoptsNaN) ==
  /\ fp[i].yearSelector # UndefinedSelector
  /\ LET s == Begin(fp[i])
     IN fp' = InstanceScope(fp, i,
                 IF [event |-> "change", handler |-> "changeYear"] \in s.bound
                 THEN OnChange(s, adoptsNaN) ELSE s)
  /\ last' = Event("change", i, 0)
  /\ UNCHANGED <<pluginConfig, config, now>>

\* the wall clock moves on
Tick(d) ==
  /\ d # now
  /\ now' = d
  /\ last' = Event("tick", 0, 0)
  /\ UNCHANGED <<pluginConfig, config, fp>>

Next ==
  \/ \E i \in DOMAIN fp : HostReady(i)
  \/ \E i \in DOMAIN fp : HostOpen(i)
  \/ \E i \in DOMAIN fp : HostClose(i)
  \/ \E i \in DOMAIN fp, y \in Years : HostYearChange(i, y)
  \/ \E i \in DOMAIN fp, dates \in DateSeqs, jump \in BOOLEAN : HostValueUpdate(i, dates, jump)
  \/ \E i \in DOMAIN fp, type \in PointerEvents : ControlPointer(i, type)
  \/ \E i \in DOMAIN fp, y \in Years : ControlSelect(i, y)
  \/ \E i \in DOMAIN fp, adoptsNaN \in BOOLEAN : ControlChange(i, adoptsNaN)
  \/ \E d \in NowDates : Tick(d)

Spec == Init /\ [][Next]_vars

\* yearMonthSelection(pluginConfig) for every configuration of
\* WideConfigInputs, attached to two calendars
InitFactory ==
  /\ pluginConfig \in WideConfigInputs
  /\ config = Spread(defaultConfig, pluginConfig)
  /\ now \in NowDates
  /\ fp = [i \in {1, 2} |-> NewInstance(FALSE, "default", now)]
  /\ last = Event("init", 0, 0)

NextFactory ==
  \/ \E i \in DOMAIN fp : HostReady(i)
  \/ \E i \in DOMAIN fp : HostOpen(i)

SpecFactory == InitFactory /\ [][NextFactory]_vars

\* one plugin attached to two calendars, with the last two years of the
\* default range
InitTwo ==
  /\ pluginConfig = ConfigObject(defaultConfig.maxYear - 1, NoKey)
  /\ config = Spread(defaultConfig, pluginConfig)
  /\ now \in NowDates
  /\ fp = [i \in {1, 2} |-> NewInstance(FALSE, "default", now)]
  /\ last = Event("init", 0, 0)

\* the events of Next on either instance; the host moves between the last
\* year of the range and the year after it and selects at most one date
NextTwo ==
  \/ \E i \in DOMAIN fp : HostReady(i)
  \/ \E i \in DOMAIN fp : HostOpen(i)
  \/ \E i \in DOMAIN fp : HostClose(i)
  \/ \E i \in DOMAIN fp, y \in {defaultConfig.maxYear, defaultConfig.maxYear + 1} :
       HostYearChange(i, y)
  \/ \E i \in DOMAIN fp, dates \in SeqsUpTo(Dates, 1) : HostValueUpdate(i, dates, TRUE)
  \/ \E i \in DOMAIN fp : ControlPointer(i, "click")
  \/ \E i \in DOMAIN fp, y \in Years : ControlSelect(i, y)
  \/ \E i \in DOMAIN fp : ControlChange(i, FALSE)

SpecTwo == InitTwo /\ [][NextTwo]_vars

----------------------------------------------------------------------------
(* Properties *)

Exists(i) == fp[i].yearSelector # UndefinedSelector

Shown(i) == Value(fp[i].yearSelector)

HasOption(sel, year) ==
  \E k \in 1..Len(sel.options) : sel.options[k].value = ToString(year)

Commanded(i, cmd, arg) ==
  \E k \in 1..Len(fp[i].cmds) : fp[i].cmds[k].cmd = cmd /\ fp[i].cmds[k].arg = arg

\* the date the "opened" handler starts from
FirstOrToday(i) ==
  IF Len(fp[i].selectedDates) > 0 THEN fp[i].selectedDates[1] ELSE now

\* C1: once the <select> exists, between any two handlers its displayed
\* value is the decimal string of the instance's currentYear.
C1_ValueEqualsCurrentYear ==
  \A i \in DOMAIN fp : Exists(i) => Shown(i) = ToString(fp[i].currentYear)

\* C2: for integers min <= max the <select> has max - min + 1 options, in
\* ascending order, the k-th with value and label the decimal string of
\* min + k - 1.
C2_RangeGeneration ==
  \A i \in DOMAIN fp :
    (/\ Exists(i)
     /\ config.minYear # Undefined /\ config.maxYear # Undefined
     /\ config.minYear <= config.maxYear)
    => LET options == fp[i].yearSelector.options
       IN /\ Len(options) = config.maxYear - config.minYear + 1
          /\ \A k \in 1..Len(options) :
               /\ options[k].value = ToString(config.minYear + k - 1)
               /\ options[k].text = ToString(config.minYear + k - 1)

\* C3: when min > max or a bound is undefined the <select> is built with no
\* options, and the opened, year-changed and value-updated handlers then
\* complete without a fault, leaving the <select> with no selection.
C3_EmptyControl ==
  \A i \in DOMAIN fp :
    (/\ Exists(i)
     /\ \/ config.minYear = Undefined
        \/ config.maxYear = Undefined
        \/ config.minYear > config.maxYear)
    => /\ fp[i].yearSelector.options = <<>>
       /\ (last.inst = i /\ last.ev \in {"open", "yearChange", "valueUpdate"})
            => (~fp[i].fault /\ fp[i].yearSelector.selectedIndex = 0 /\ Shown(i) = <<>>)

C3_Witness ==
  \E i \in DOMAIN fp :
    /\ Exists(i) /\ config.minYear = Undefined
    /\ last.inst = i /\ last.ev = "open" /\ fp[i].currentYear > 0

\* C4 as stated: after "opened" with the <select> existing, the displayed
\* value is the decimal string of the year of the first selected date (of
\* today when nothing is selected), and currentYear and currentMonth are
\* that date's year and month.
C4_OpenSyncAlwaysShown ==
  \A i \in DOMAIN fp :
    (last.ev = "open" /\ last.inst = i /\ Exists(i))
    => /\ Shown(i) = ToString(FirstOrToday(i).year)
       /\ fp[i].currentYear = FirstOrToday(i).year
       /\ fp[i].currentMonth = FirstOrToday(i).month

\* C4 amended: after "opened" with the <select> existing, currentYear and
\* currentMonth are the year and month of the first selected date (of today
\* when nothing is selected), and the displayed value is the decimal string
\* of that year when the <select> has an option for it and empty otherwise.
C4_OpenSync ==
  \A i \in DOMAIN fp :
    (last.ev = "open" /\ last.inst = i /\ Exists(i))
    => /\ Shown(i) = IF HasOption(fp[i].yearSelector, FirstOrToday(i).year)
                     THEN ToString(FirstOrToday(i).year) ELSE <<>>
       /\ fp[i].currentYear = FirstOrToday(i).year
       /\ fp[i].currentMonth = FirstOrToday(i).month

C4_Witness ==
  \E i \in DOMAIN fp :
    /\ last.ev = "open" /\ last.inst = i /\ Exists(i)
    /\ Len(fp[i].selectedDates) = 2
    /\ fp[i].selectedDates[1] # fp[i].selectedDates[2]
    /\ Shown(i) = ToString(fp[i].selectedDates[1].year)

\* C5: when the user commits a year Y of the configured range, the change
\* listener commands changeYear(Y) and the instance's currentYear is Y
\* afterwards.
C5_ForwardPropagation ==
  \A i \in DOMAIN fp :
    (/\ last.ev = "select" /\ last.inst = i
     /\ config.minYear <= last.arg /\ last.arg <= config.maxYear)
    => /\ Commanded(i, "changeYear", last.arg)
       /\ fp[i].currentYear = last.arg

C5_Witness ==
  \E i \in DOMAIN fp :
    /\ last.ev = "select" /\ last.inst = i /\ last.arg < 0
    /\ fp[i].currentYear = last.arg

\* C6 as stated: after "year changed" or "value updated" with the <select>
\* existing, the displayed value is the decimal string of currentYear.
C6_ReverseAlwaysShown ==
  \A i \in DOMAIN fp :
    (last.ev \in {"yearChange", "valueUpdate"} /\ last.inst = i /\ Exists(i))
    => Shown(i) = ToString(fp[i].currentYear)

\* C6 amended: after "year changed" or "value updated" with the <select>
\* existing, the displayed value is the decimal string of currentYear when
\* the <select> has an option for that year, and empty otherwise.
C6_ReversePropagation ==
  \A i \in DOMAIN fp :
    (last.ev \in {"yearChange", "valueUpdate"} /\ last.inst = i /\ Exists(i))
    => Shown(i) = IF HasOption(fp[i].yearSelector, fp[i].currentYear)
                  THEN ToString(fp[i].currentYear) ELSE <<>>

C6_Witness ==
  \E i \in DOMAIN fp :
    /\ last.ev = "valueUpdate" /\ last.inst = i /\ Exists(i)
    /\ fp[i].currentYear = defaultConfig.maxYear - 1
    /\ Shown(i) = ToString(fp[i].currentYear)

\* C7: a click, mousedown or focus on the <select> is not seen by a handler
\* of the calendar container, and leaves currentYear, currentMonth,
\* selectedDates, the open status and the displayed value as they were.
C7_EventIsolation ==
  [][\A i \in DOMAIN fp :
       (last'.ev \in {"click", "mousedown", "focus"} /\ last'.inst = i)
       => /\ ~fp'[i].observed
          /\ fp'[i].currentYear = fp[i].currentYear
          /\ fp'[i].currentMonth = fp[i].currentMonth
          /\ fp'[i].selectedDates = fp[i].selectedDates
          /\ fp'[i].isOpen = fp[i].isOpen
          /\ Value(fp'[i].yearSelector) = Value(fp[i].yearSelector)]_vars

C7_Witness ==
  \E i \in DOMAIN fp :
    /\ last.ev = "focus" /\ last.inst = i
    /\ fp[i].isOpen /\ fp[i].layout = "select" /\ ~fp[i].observed

\* C8: on an instance configured with noCalendar no <select> is ever
\* created, the plugin registers no hook and no listener, and it uses
\* nothing of the instance but that flag: no command, no read of
\* currentYear, no change of the layout.
C8_NoCalendarInert ==
  \A i \in DOMAIN fp :
    fp[i].noCalendar
    => /\ fp[i].yearSelector = UndefinedSelector
       /\ fp[i].hooks = {}
       /\ fp[i].bound = {}
       /\ fp[i].touched \subseteq {"config.noCalendar"}
       /\ fp[i].cmds = <<>>
       /\ fp[i].layout # "select"
       /\ ~fp[i].fault

C8_Witness ==
  \E i \in DOMAIN fp :
    /\ fp[i].noCalendar /\ fp[i].readyFired /\ fp[i].isOpen
    /\ last.ev = "yearChange" /\ last.inst = i
    /\ Len(fp[i].selectedDates) > 0

\* C9: an "opened" that directly follows an "opened" on the same instance,
\* with selectedDates and the wall clock unchanged, leaves the <select>,
\* currentYear and currentMonth as the first one left them.
C9_OpenIdempotent ==
  [][\A i \in DOMAIN fp :
       (/\ last.ev = "open" /\ last.inst = i
        /\ last'.ev = "open" /\ last'.inst = i /\ last'.arg = 1
        /\ now' = now /\ fp'[i].selectedDates = fp[i].selectedDates)
       => /\ fp'[i].yearSelector = fp[i].yearSelector
          /\ fp'[i].currentYear = fp[i].currentYear
          /\ fp'[i].currentMonth = fp[i].currentMonth]_vars

C9_Witness ==
  \E i \in DOMAIN fp :
    /\ last.ev = "open" /\ last.inst = i /\ last.arg = 1
    /\ Exists(i) /\ Len(fp[i].selectedDates) > 0
    /\ fp[i].currentMonth = 11

\* C10: the resolved configuration is minYear = 1900 and maxYear = 2099 with
\* every key the caller supplied taking precedence, it stays so under every
\* handler, and the instances of one plugin get the same options.
C10_ResolvedConfig ==
  /\ DOMAIN config = {"minYear", "maxYear"}
  /\ config.minYear = IF "minYear" \in DOMAIN pluginConfig
                      THEN pluginConfig.minYear ELSE 1900
  /\ config.maxYear = IF "maxYear" \in DOMAIN pluginConfig
                      THEN pluginConfig.maxYear ELSE 2099
  /\ \A i, j \in DOMAIN fp :
       (Exists(i) /\ Exists(j))
       => fp[i].yearSelector.options = fp[j].yearSelector.options

C10_Witness ==
  /\ DOMAIN pluginConfig = {"minYear"}
  /\ pluginConfig.minYear = 2098
  /\ \A i \in DOMAIN fp : Exists(i) /\ Len(fp[i].yearSelector.options) = 2
  /\ last.ev = "open"

\* C11: the <select> does not exist before "ready", the plugin creates one
\* <select> per instance, in the "ready" handler, and from then on
\* yearSelector holds that element.
C11_CreatedOnce ==
  /\ [](\A i \in DOMAIN fp :
          /\ ~fp[i].readyFired => (~Exists(i) /\ fp[i].created = 0)
          /\ fp[i].created <= 1
          /\ Exists(i) <=> fp[i].created = 1)
  /\ [][\A i \in DOMAIN fp :
          /\ fp'[i].created # fp[i].created
               => (last'.ev = "ready" /\ last'.inst = i /\ ~Exists(i))
          /\ Exists(i)
               => /\ fp'[i].yearSelector # UndefinedSelector
                  /\ fp'[i].yearSelector.options = fp[i].yearSelector.options]_vars

C11_Witness ==
  \E i \in DOMAIN fp :
    /\ Exists(i) /\ fp[i].created = 1 /\ fp[i].isOpen
    /\ last.ev = "valueUpdate" /\ last.inst = i
    /\ Len(fp[i].yearSelector.options) > 0

\* C12: "opened", "year changed" and "value updated" before "ready" complete
\* without a fault and without creating or writing a <select>; "opened"
\* still commands the host the year and month of its reference date.
C12_BeforeReady ==
  \A i \in DOMAIN fp :
    (/\ ~fp[i].readyFired /\ ~fp[i].noCalendar
     /\ last.inst = i /\ last.ev \in {"open", "yearChange", "valueUpdate"})
    => /\ ~fp[i].fault
       /\ fp[i].yearSelector = UndefinedSelector
       /\ fp[i].created = 0
       /\ last.ev = "open"
            => /\ Commanded(i, "changeYear", FirstOrToday(i).year)
               /\ Commanded(i, "changeMonth", FirstOrToday(i).month)
               /\ fp[i].currentYear = FirstOrToday(i).year
               /\ fp[i].currentMonth = FirstOrToday(i).month

C12_Witness ==
  \E i \in DOMAIN fp :
    /\ ~fp[i].readyFired /\ ~fp[i].noCalendar
    /\ last.inst = i /\ last.ev = "open"
    /\ Len(fp[i].selectedDates) > 0
    /\ fp[i].currentYear = fp[i].selectedDates[1].year
    /\ fp[i].currentYear # now.year

\* C13: when the header or its numInputWrapper is missing, the "ready"
\* handler raises no fault and leaves the layout as it was.
C13_ReadyNoFault ==
  \A i \in DOMAIN fp :
    (/\ last.ev = "ready" /\ last.inst = i /\ ~fp[i].noCalendar
     /\ fp[i].layout # "select")
    => (~fp[i].fault /\ fp[i].layout \in {"noHeader", "noWrapper"})

\* C14: a "ready" whose substitution failed leaves nothing behind: no
\* <select> in yearSelector and no listener registered.
C14_ReadyNoPartialEffect ==
  \A i \in DOMAIN fp :
    (fp[i].readyFired /\ ~fp[i].noCalendar /\ fp[i].layout # "select")
    => (fp[i].yearSelector = UndefinedSelector /\ fp[i].bound = {})

\* C15: a "change" on a <select> whose value does not parse as an integer
\* gives the host no command and leaves currentYear as it was.
C15_UnparsableIsNoOp ==
  \A i \in DOMAIN fp :
    (last.ev = "change" /\ last.inst = i /\ ParseInt(Shown(i)) = NaN)
    => (fp[i].cmds = <<>> /\ fp[i].currentYear # NaN)

C17_CommitComesToRest ==
  \A i \in DOMAIN fp :
    (/\ last.ev = "select" /\ last.inst = i
     /\ config.minYear <= last.arg /\ last.arg <= config.maxYear)
    => /\ fp[i].cmds = <<[cmd |-> "changeYear", arg |-> last.arg, flag |-> FALSE]>>
       /\ Len(fp[i].nested) <= 1
       /\ fp[i].currentYear = last.arg
       /\ Shown(i) = ToString(last.arg)
       /\ ~fp[i].fault

C17_Witness ==
  \E i \in DOMAIN fp :
    /\ last.ev = "select" /\ last.inst = i /\ last.arg = 0
    /\ Len(fp[i].nested) = 1 /\ Len(fp[i].cmds) = 1
    /\ Shown(i) = <<"0">>

C18_InstancesIndependent ==
  [][\A i, j \in DOMAIN fp :
       (last'.inst = i /\ j # i)
       => /\ fp'[j].yearSelector = fp[j].yearSelector
          /\ fp'[j].created = fp[j].created
          /\ fp'[j].currentYear = fp[j].currentYear
          /\ fp'[j].currentMonth = fp[j].currentMonth]_vars

C18_Witness ==
  /\ DOMAIN fp = {1, 2}
  /\ Exists(1) /\ Exists(2)
  /\ Shown(1) # Shown(2) /\ Shown(1) # <<>> /\ Shown(2) # <<>>
  /\ fp[1].currentYear # fp[2].currentYear
  /\ last.ev = "select" /\ last.inst = 2

====
